---------------------------- MODULE Spec2Model ----------------------------
(***************************************************************************)
(* UBID (Unique Building Identifier) codec of buildingid/code.py:          *)
(* encode, decode, isValid and the CodeArea geometry (intersection,        *)
(* jaccard, resize), over the Open Location Code grid.                     *)
(*                                                                         *)
(* Strings are sequences of one-character strings.  Coordinates are exact  *)
(* integers: a latitude is counted in units of 1/LatScale degree and a     *)
(* longitude in units of 1/LonScale degree, fine enough for every cell     *)
(* edge and every cell centre of a grid code of up to MaxDigits digits.    *)
(***************************************************************************)
EXTENDS Integers, Sequences, FiniteSets

NoneValue == [kind |-> "none"]

(***************************************************************************)
(* Open Location Code: published constants                                 *)
(***************************************************************************)
CODE_ALPHABET_ ==
  << "2", "3", "4", "5", "6", "7", "8", "9", "C", "F",
     "G", "H", "J", "M", "P", "Q", "R", "V", "W", "X" >>
OLC_SEPARATOR_ == "+"
PADDING_CHARACTER_ == "0"
SEPARATOR_POSITION_ == 8
PAIR_CODE_LENGTH_ == 10
ENCODING_BASE_ == 20
GRID_ROWS_ == 5
GRID_COLUMNS_ == 4
LATITUDE_MAX_ == 90
LONGITUDE_MAX_ == 180

\* The grid codes of the model have at most this many digits (one grid
\* refinement digit after the five pairs).
MaxDigits == PAIR_CODE_LENGTH_ + 1

\* Units per degree: the finest cell (MaxDigits digits) is 4 units high and
\* 4 units wide, so that half a cell, and the centre of a box whose edges lie
\* on half cells, are whole numbers of units.
LatScale == 8000 * GRID_ROWS_ * 4
LonScale == 8000 * GRID_COLUMNS_ * 4

Min(x, y) == IF x <= y THEN x ELSE y
Max(x, y) == IF x >= y THEN x ELSE y

RECURSIVE Pow(_, _)
Pow(b, e) == IF e = 0 THEN 1 ELSE b * Pow(b, e - 1)

Range(s) == { s[i] : i \in 1..Len(s) }

\* F applied to the value of e: e is evaluated once, however often F uses
\* its argument.
Eval(e, F(_)) == CHOOSE r \in { F(x) : x \in {e} } : TRUE

\* str.upper() on the characters that occur in the inputs of the model.
Upper(ch) ==
  CASE ch = "c" -> "C"
    [] ch = "f" -> "F"
    [] ch = "g" -> "G"
    [] ch = "h" -> "H"
    [] ch = "j" -> "J"
    [] ch = "m" -> "M"
    [] ch = "p" -> "P"
    [] ch = "q" -> "Q"
    [] ch = "r" -> "R"
    [] ch = "v" -> "V"
    [] ch = "w" -> "W"
    [] ch = "x" -> "X"
    [] ch = "a" -> "A"
    [] OTHER -> ch

UpperSeq(s) == [i \in 1..Len(s) |-> Upper(s[i])]

\* CODE_ALPHABET_.find(ch): the 0-based index of ch.
AlphabetFind(ch) == (CHOOSE i \in 1..Len(CODE_ALPHABET_) : CODE_ALPHABET_[i] = ch) - 1

\* s.find(ch): the 0-based index of the first ch in s, -1 when there is none.
Find(s, ch) ==
  IF ch \in Range(s)
    THEN (CHOOSE i \in 1..Len(s) : s[i] = ch /\ \A j \in 1..(i - 1) : s[j] # ch) - 1
    ELSE -1

\* s.rfind(ch)
RFind(s, ch) ==
  IF ch \in Range(s)
    THEN (CHOOSE i \in 1..Len(s) : s[i] = ch /\ \A j \in (i + 1)..Len(s) : s[j] # ch) - 1
    ELSE -1

Count(s, ch) == Cardinality({ i \in 1..Len(s) : s[i] = ch })

(***************************************************************************)
(* openlocationcode.isValid                                                *)
(***************************************************************************)
OlcIsValid(str) ==
  \E code \in {str} :
    LET sep == Find(code, OLC_SEPARATOR_)
        pad == Find(code, PADDING_CHARACTER_)
        rpad == RFind(code, PADDING_CHARACTER_) + 1
        padsOk ==
          /\ sep >= SEPARATOR_POSITION_
          /\ pad # 0
          /\ (rpad - pad) % 2 = 0
          /\ \A i \in (pad + 1)..rpad : code[i] = PADDING_CHARACTER_
          /\ code[Len(code)] = OLC_SEPARATOR_
    IN /\ Count(code, OLC_SEPARATOR_) = 1
       /\ Len(code) # 1
       /\ sep <= SEPARATOR_POSITION_
       /\ sep % 2 = 0
       /\ (pad # -1) => padsOk
       /\ Len(code) - sep - 1 # 1
       /\ \A i \in 1..Len(code) :
            \/ Upper(code[i]) \in Range(CODE_ALPHABET_)
            \/ code[i] \in {OLC_SEPARATOR_, PADDING_CHARACTER_}

(***************************************************************************)
(* openlocationcode.CodeArea and the grid arithmetic                       *)
(***************************************************************************)
\* openlocationcode.CodeArea.__init__: the centre is capped at the maxima.
OlcCodeArea(latLo, lonLo, latHi, lonHi, codeLength) ==
  [ latitudeLo |-> latLo, longitudeLo |-> lonLo,
    latitudeHi |-> latHi, longitudeHi |-> lonHi,
    codeLength |-> codeLength,
    latitudeCenter |-> Min(latLo + (latHi - latLo) \div 2, LATITUDE_MAX_ * LatScale),
    longitudeCenter |-> Min(lonLo + (lonHi - lonLo) \div 2, LONGITUDE_MAX_ * LonScale) ]

\* Height and width, in units, of the cell of the k-th pair (k in 1..5).
PairLatPlace(k) == (ENCODING_BASE_ * LatScale) \div Pow(ENCODING_BASE_, k - 1)
PairLonPlace(k) == (ENCODING_BASE_ * LonScale) \div Pow(ENCODING_BASE_, k - 1)
\* Height and width of the cell of the g-th grid digit (g >= 1).
GridLatPlace(g) == PairLatPlace(PAIR_CODE_LENGTH_ \div 2) \div Pow(GRID_ROWS_, g)
GridLonPlace(g) == PairLonPlace(PAIR_CODE_LENGTH_ \div 2) \div Pow(GRID_COLUMNS_, g)

\* computeLatitudePrecision(codeLength), in units.
LatitudePrecision(n) ==
  IF n <= PAIR_CODE_LENGTH_ THEN PairLatPlace(n \div 2)
  ELSE GridLatPlace(n - PAIR_CODE_LENGTH_)

LongitudePrecision(n) ==
  IF n <= PAIR_CODE_LENGTH_ THEN PairLonPlace(n \div 2)
  ELSE GridLonPlace(n - PAIR_CODE_LENGTH_)

clipLatitude(lat) == Min(LATITUDE_MAX_ * LatScale, Max(-(LATITUDE_MAX_ * LatScale), lat))

\* normalizeLongitude: into [-180, 180).
normalizeLongitude(lon) ==
  ((lon + LONGITUDE_MAX_ * LonScale) % (2 * LONGITUDE_MAX_ * LonScale))
    - LONGITUDE_MAX_ * LonScale

\* The d-th digit (d in 1..MaxDigits) of the code of the point (latVal, lonVal),
\* both counted from the south-west corner of the world.
OlcDigit(latVal, lonVal, d) ==
  IF d <= PAIR_CODE_LENGTH_
    THEN LET k == (d + 1) \div 2
         IN IF d % 2 = 1
              THEN CODE_ALPHABET_[((latVal \div PairLatPlace(k)) % ENCODING_BASE_) + 1]
              ELSE CODE_ALPHABET_[((lonVal \div PairLonPlace(k)) % ENCODING_BASE_) + 1]
    ELSE LET g == d - PAIR_CODE_LENGTH_
             row == (latVal \div GridLatPlace(g)) % GRID_ROWS_
             col == (lonVal \div GridLonPlace(g)) % GRID_COLUMNS_
         IN CODE_ALPHABET_[row * GRID_COLUMNS_ + col + 1]

\* openlocationcode.encode(latitude, longitude, codeLength)
OlcEncode(latitude, longitude, codeLength) ==
  LET lat0 == clipLatitude(latitude)
      lon1 == normalizeLongitude(longitude)
      lat1 == IF lat0 = LATITUDE_MAX_ * LatScale
                THEN lat0 - LatitudePrecision(codeLength) ELSE lat0
      latVal == lat1 + LATITUDE_MAX_ * LatScale
      lonVal == lon1 + LONGITUDE_MAX_ * LonScale
      digits == [d \in 1..codeLength |-> OlcDigit(latVal, lonVal, d)]
  IN IF codeLength >= SEPARATOR_POSITION_
       THEN SubSeq(digits, 1, SEPARATOR_POSITION_) \o <<OLC_SEPARATOR_>>
              \o SubSeq(digits, SEPARATOR_POSITION_ + 1, codeLength)
       ELSE digits
              \o [i \in 1..(SEPARATOR_POSITION_ - codeLength) |-> PADDING_CHARACTER_]
              \o <<OLC_SEPARATOR_>>

\* The code with separator and padding removed, in upper case.
OlcStrip(code) ==
  UpperSeq(SelectSeq(code, LAMBDA ch : ch \notin {OLC_SEPARATOR_, PADDING_CHARACTER_}))

\* The latitude and longitude, in units from the south-west corner of the
\* world, that the first d digits of c stand for.
RECURSIVE DigitsLat(_, _)
DigitsLat(c, d) ==
  IF d = 0 THEN 0
  ELSE DigitsLat(c, d - 1)
         + (IF d <= PAIR_CODE_LENGTH_
              THEN IF d % 2 = 1
                     THEN AlphabetFind(c[d]) * PairLatPlace((d + 1) \div 2) ELSE 0
              ELSE (AlphabetFind(c[d]) \div GRID_COLUMNS_)
                     * GridLatPlace(d - PAIR_CODE_LENGTH_))

RECURSIVE DigitsLon(_, _)
DigitsLon(c, d) ==
  IF d = 0 THEN 0
  ELSE DigitsLon(c, d - 1)
         + (IF d <= PAIR_CODE_LENGTH_
              THEN IF d % 2 = 0
                     THEN AlphabetFind(c[d]) * PairLonPlace(d \div 2) ELSE 0
              ELSE (AlphabetFind(c[d]) % GRID_COLUMNS_)
                     * GridLonPlace(d - PAIR_CODE_LENGTH_))

\* openlocationcode.decode(code), for a full code of at most MaxDigits digits.
OlcDecode(code) ==
  Eval(OlcStrip(code), LAMBDA c :
    Eval(<<DigitsLat(c, Len(c)) - LATITUDE_MAX_ * LatScale,
           DigitsLon(c, Len(c)) - LONGITUDE_MAX_ * LonScale>>, LAMBDA sw :
      OlcCodeArea(sw[1], sw[2],
                  sw[1] + LatitudePrecision(Len(c)),
                  sw[2] + LongitudePrecision(Len(c)), Len(c))))

(***************************************************************************)
(* buildingid.validators                                                   *)
(***************************************************************************)
isValidCodeLength(codeLength) ==
  /\ codeLength >= 2
  /\ (codeLength >= PAIR_CODE_LENGTH_) \/ (codeLength % 2 = 0)

isValidLatitude(latitudeLo, latitudeHi) ==
  /\ -(LATITUDE_MAX_ * LatScale) <= latitudeLo
  /\ latitudeLo <= latitudeHi
  /\ latitudeHi <= LATITUDE_MAX_ * LatScale

isValidLongitude(longitudeLo, longitudeHi) ==
  /\ -(LONGITUDE_MAX_ * LonScale) <= longitudeLo
  /\ longitudeLo <= longitudeHi
  /\ longitudeHi <= LONGITUDE_MAX_ * LonScale

isValidLatitudeCenter(latitudeLo, latitudeHi, latitudeCenter) ==
  /\ isValidLatitude(latitudeLo, latitudeHi)
  /\ latitudeLo <= latitudeCenter
  /\ latitudeCenter <= latitudeHi

isValidLongitudeCenter(longitudeLo, longitudeHi, longitudeCenter) ==
  /\ isValidLongitude(longitudeLo, longitudeHi)
  /\ longitudeLo <= longitudeCenter
  /\ longitudeCenter <= longitudeHi

isValidCodeArea(area) ==
  \E codeArea \in {area} :
    /\ codeArea # NoneValue
    /\ isValidCodeLength(codeArea.codeLength)
    /\ isValidLatitudeCenter(codeArea.latitudeLo, codeArea.latitudeHi, codeArea.latitudeCenter)
    /\ isValidLongitudeCenter(codeArea.longitudeLo, codeArea.longitudeHi, codeArea.longitudeCenter)


(***************************************************************************)
(* buildingid/code.py: the identifier grammar                              *)
(***************************************************************************)
SEPARATOR_ == "-"
NEWLINE_ == "\n"
DIGITS_ == {"0", "1", "2", "3", "4", "5", "6", "7", "8", "9"}

RE_GROUP_OPENLOCATIONCODE_ == 1
RE_GROUP_NORTH_ == 2
RE_GROUP_EAST_ == 3
RE_GROUP_SOUTH_ == 4
RE_GROUP_WEST_ == 5

\* The pattern is matched from left to right.  Each operator below takes the
\* subject s and a set P of positions (characters consumed so far) and gives
\* the positions the sub-pattern can end at.

\* [<first k characters of the alphabet>], under re.IGNORECASE
ReClass(s, P, k) ==
  { p + 1 : p \in { q \in P : q + 1 <= Len(s)
                      /\ \E i \in 1..k : CODE_ALPHABET_[i] = Upper(s[q + 1]) } }

\* a literal character
ReLit(s, P, ch) == { p + 1 : p \in { q \in P : q + 1 <= Len(s) /\ s[q + 1] = ch } }

\* ch{n}
RECURSIVE ReTimes(_, _, _, _)
ReTimes(s, P, ch, n) == IF n = 0 THEN P ELSE ReTimes(s, ReLit(s, P, ch), ch, n - 1)

\* ch{n,}
ReAtLeast(s, P, ch, n) ==
  UNION { { q \in (p + n)..Len(s) : \A i \in (p + 1)..q : s[i] = ch } : p \in P }

\* [alphabet]{2,}
ReClassAtLeast2(s, P) ==
  UNION { { q \in (p + 2)..Len(s) :
              \A i \in (p + 1)..q : Upper(s[i]) \in Range(CODE_ALPHABET_) } : p \in P }

\* 0{n}\+(?:0{2,})?
RePadded(s, P, n) ==
  LET sep == ReLit(s, ReTimes(s, P, PADDING_CHARACTER_, n), OLC_SEPARATOR_)
  IN sep \cup ReAtLeast(s, sep, PADDING_CHARACTER_, 2)

ReAlphabet2(s, P) ==
  ReClass(s, ReClass(s, P, Len(CODE_ALPHABET_)), Len(CODE_ALPHABET_))

\* group 1: the grid code
ReGridCode(s, P) ==
  LET p2 == ReClass(s, ReClass(s, P, 9), 18)
      p4 == ReAlphabet2(s, p2)
      p6 == ReAlphabet2(s, p4)
      p8 == ReLit(s, ReAlphabet2(s, p6), OLC_SEPARATOR_)
      tail == ReAtLeast(s, p8, PADDING_CHARACTER_, 2)
                \cup ReAtLeast(s, ReClassAtLeast2(s, p8), PADDING_CHARACTER_, 0)
  IN RePadded(s, p2, 6) \cup RePadded(s, p4, 4) \cup RePadded(s, p6, 2)
       \cup p8 \cup tail

\* (0|[1-9][0-9]*)
ReExtent(s, P) ==
  UNION { { q \in (p + 1)..Len(s) :
              /\ \A i \in (p + 1)..q : s[i] \in DIGITS_
              /\ (s[p + 1] = "0") => (q = p + 1) } : p \in P }

\* $ without re.MULTILINE: the end of the string, or just before a newline
\* that ends the string.
ReDollar(s, p) ==
  \/ p = Len(s)
  \/ p = Len(s) - 1 /\ s[Len(s)] = NEWLINE_

\* -(0|[1-9][0-9]*) from position p
ReSeparatorExtent(s, p) == ReExtent(s, ReLit(s, {p}, SEPARATOR_))

\* The ways the whole pattern matches s: the end positions of its five groups.
ReMatches(s) ==
  UNION { UNION { UNION { UNION {
    { <<e1, e2, e3, e4, e5>> :
        e5 \in { p \in ReSeparatorExtent(s, e4) : ReDollar(s, p) } }
    : e4 \in ReSeparatorExtent(s, e3) }
    : e3 \in ReSeparatorExtent(s, e2) }
    : e2 \in ReSeparatorExtent(s, e1) }
    : e1 \in ReGridCode(s, {0}) }

\* RE_PATTERN_.match(s): the five groups, or NoneValue.
RE_PATTERN_match(s) ==
  Eval(ReMatches(s), LAMBDA ends :
    IF ends = {} THEN NoneValue
    ELSE LET e == CHOOSE x \in ends : TRUE
         IN [ kind |-> "match",
              group |-> [g \in 1..5 |->
                SubSeq(s, (IF g = 1 THEN 0 ELSE e[g - 1] + 1) + 1, e[g])] ])

\* isValid_(code); code is NoneValue or [kind |-> "str", v |-> <characters>]
isValid_(code) ==
  IF code = NoneValue THEN NoneValue
  ELSE Eval(RE_PATTERN_match(code.v), LAMBDA match :
         IF match = NoneValue
              \/ ~OlcIsValid(match.group[RE_GROUP_OPENLOCATIONCODE_])
           THEN NoneValue
           ELSE match)

isValid(code) == isValid_(code) # NoneValue

(***************************************************************************)
(* buildingid/code.py: CodeArea                                            *)
(***************************************************************************)
\* CodeArea.__init__(centroid, latitudeLo, longitudeLo, latitudeHi,
\* longitudeHi, codeLength)
CodeArea(centroid, latLo, lonLo, latHi, lonHi, codeLength) ==
  [ centroid |-> centroid,
    latitudeLo |-> latLo, longitudeLo |-> lonLo,
    latitudeHi |-> latHi, longitudeHi |-> lonHi,
    codeLength |-> codeLength,
    latitudeCenter |-> OlcCodeArea(latLo, lonLo, latHi, lonHi, codeLength).latitudeCenter,
    longitudeCenter |-> OlcCodeArea(latLo, lonLo, latHi, lonHi, codeLength).longitudeCenter ]

\* CodeArea.area, in square units
area(self) ==
  (self.latitudeHi - self.latitudeLo) * (self.longitudeHi - self.longitudeLo)

\* intersection with >= for >: boxes that just touch give None
intersectionClosed(self, other) ==
  IF other = NoneValue THEN NoneValue
  ELSE LET latitudeLo == Max(self.latitudeLo, other.latitudeLo)
           latitudeHi == Min(self.latitudeHi, other.latitudeHi)
           longitudeLo == Max(self.longitudeLo, other.longitudeLo)
           longitudeHi == Min(self.longitudeHi, other.longitudeHi)
       IN IF (latitudeLo >= latitudeHi) \/ (longitudeLo >= longitudeHi)
            THEN NoneValue
            ELSE [ kind |-> "tuple",
                   v |-> <<longitudeLo, latitudeLo, longitudeHi, latitudeHi>> ]

\* intersection with the tuple in the order latitude, longitude
intersectionLatitudeFirst(self, other) ==
  IF other = NoneValue THEN NoneValue
  ELSE LET latitudeLo == Max(self.latitudeLo, other.latitudeLo)
           latitudeHi == Min(self.latitudeHi, other.latitudeHi)
           longitudeLo == Max(self.longitudeLo, other.longitudeLo)
           longitudeHi == Min(self.longitudeHi, other.longitudeHi)
       IN IF (latitudeLo > latitudeHi) \/ (longitudeLo > longitudeHi)
            THEN NoneValue
            ELSE [ kind |-> "tuple",
                   v |-> <<latitudeLo, longitudeLo, latitudeHi, longitudeHi>> ]

\* CodeArea.intersection(other): NoneValue, or the tuple the code returns
intersection(self, other) ==
  IF other = NoneValue THEN NoneValue
  ELSE LET latitudeLo == Max(self.latitudeLo, other.latitudeLo)
           latitudeHi == Min(self.latitudeHi, other.latitudeHi)
           longitudeLo == Max(self.longitudeLo, other.longitudeLo)
           longitudeHi == Min(self.longitudeHi, other.longitudeHi)
       IN IF (latitudeLo > latitudeHi) \/ (longitudeLo > longitudeHi)
            THEN NoneValue
            ELSE [ kind |-> "tuple",
                   v |-> <<longitudeLo, latitudeLo, longitudeHi, latitudeHi>> ]

\* CodeArea.jaccard(other): NoneValue, the quotient num/den, or the
\* ZeroDivisionError of a zero denominator.  bbox[i] is 0-based in the code.
jaccard(self, other) ==
  LET bbox == intersection(self, other)
  IN IF bbox = NoneValue THEN NoneValue
     ELSE LET a == (bbox.v[4] - bbox.v[2]) * (bbox.v[3] - bbox.v[1])
              den == area(self) + area(other) - a
          IN IF den = 0
               THEN [kind |-> "error", error |-> "ZeroDivisionError"]
               ELSE [kind |-> "ratio", num |-> a, den |-> den]

\* resize without the division by 2: a whole cell off every side
resizeWholeCell(self) ==
  LET height == self.centroid.latitudeHi - self.centroid.latitudeLo
      width == self.centroid.longitudeHi - self.centroid.longitudeLo
  IN CodeArea(self.centroid,
              self.latitudeLo + height, self.longitudeLo + width,
              self.latitudeHi - height, self.longitudeHi - width,
              self.codeLength)

\* CodeArea.resize()
resize(self) ==
  LET halfHeight == (self.centroid.latitudeHi - self.centroid.latitudeLo) \div 2
      halfWidth == (self.centroid.longitudeHi - self.centroid.longitudeLo) \div 2
  IN CodeArea(self.centroid,
              self.latitudeLo + halfHeight, self.longitudeLo + halfWidth,
              self.latitudeHi - halfHeight, self.longitudeHi - halfWidth,
              self.codeLength)

(***************************************************************************)
(* buildingid/code.py: decode                                              *)
(***************************************************************************)
Error(e) == [kind |-> "error", error |-> e]

\* int(<decimal digits>)
RECURSIVE ParseInt(_)
ParseInt(ds) ==
  IF ds = <<>> THEN 0
  ELSE 10 * ParseInt(SubSeq(ds, 1, Len(ds) - 1))
         + (CHOOSE d \in 0..9 : <<"0","1","2","3","4","5","6","7","8","9">>[d + 1] = ds[Len(ds)])

\* decode, lines 274-281: the centre cell of a parsed identifier
decodeCell(match) ==
  Eval(OlcDecode(match.group[RE_GROUP_OPENLOCATIONCODE_]), LAMBDA codeAreaCenter :
    IF ~isValidCodeArea(codeAreaCenter)
      THEN Error("buildingid.code.decode - Invalid code area")
    ELSE IF ~(codeAreaCenter.latitudeHi - codeAreaCenter.latitudeLo >= 0)
      THEN Error("buildingid.code.decode - Invalid code - Negative height")
    ELSE IF ~(codeAreaCenter.longitudeHi - codeAreaCenter.longitudeLo >= 0)
      THEN Error("buildingid.code.decode - Invalid code - Negative width")
    ELSE [kind |-> "cell", cell |-> codeAreaCenter])

\* decodeBox with the north and south groups exchanged
decodeBoxNorthSouthSwapped(match, codeAreaCenter) ==
  LET codeAreaCenterHeight == codeAreaCenter.latitudeHi - codeAreaCenter.latitudeLo
      codeAreaCenterWidth == codeAreaCenter.longitudeHi - codeAreaCenter.longitudeLo
      latitudeLo == codeAreaCenter.latitudeLo
                      - ParseInt(match.group[RE_GROUP_NORTH_]) * codeAreaCenterHeight
      latitudeHi == codeAreaCenter.latitudeHi
                      + ParseInt(match.group[RE_GROUP_SOUTH_]) * codeAreaCenterHeight
      longitudeLo == codeAreaCenter.longitudeLo
                      - ParseInt(match.group[RE_GROUP_WEST_]) * codeAreaCenterWidth
      longitudeHi == codeAreaCenter.longitudeHi
                      + ParseInt(match.group[RE_GROUP_EAST_]) * codeAreaCenterWidth
  IN IF ~isValidLatitude(latitudeLo, latitudeHi)
       THEN Error("buildingid.code.decode - Invalid code - Invalid latitude coordinates")
     ELSE IF ~isValidLongitude(longitudeLo, longitudeHi)
       THEN Error("buildingid.code.decode - Invalid code - Invalid longitude coordinates")
     ELSE [ kind |-> "area",
            area |-> CodeArea(codeAreaCenter, latitudeLo, longitudeLo,
                              latitudeHi, longitudeHi, codeAreaCenter.codeLength) ]

\* decode, lines 283-291: the bounding box from the cell and the extents
decodeBox(match, codeAreaCenter) ==
  LET codeAreaCenterHeight == codeAreaCenter.latitudeHi - codeAreaCenter.latitudeLo
      codeAreaCenterWidth == codeAreaCenter.longitudeHi - codeAreaCenter.longitudeLo
      latitudeLo == codeAreaCenter.latitudeLo
                      - ParseInt(match.group[RE_GROUP_SOUTH_]) * codeAreaCenterHeight
      latitudeHi == codeAreaCenter.latitudeHi
                      + ParseInt(match.group[RE_GROUP_NORTH_]) * codeAreaCenterHeight
      longitudeLo == codeAreaCenter.longitudeLo
                      - ParseInt(match.group[RE_GROUP_WEST_]) * codeAreaCenterWidth
      longitudeHi == codeAreaCenter.longitudeHi
                      + ParseInt(match.group[RE_GROUP_EAST_]) * codeAreaCenterWidth
  IN IF ~isValidLatitude(latitudeLo, latitudeHi)
       THEN Error("buildingid.code.decode - Invalid code - Invalid latitude coordinates")
     ELSE IF ~isValidLongitude(longitudeLo, longitudeHi)
       THEN Error("buildingid.code.decode - Invalid code - Invalid longitude coordinates")
     ELSE [ kind |-> "area",
            area |-> CodeArea(codeAreaCenter, latitudeLo, longitudeLo,
                              latitudeHi, longitudeHi, codeAreaCenter.codeLength) ]

\* decode(code), whole
decode(code) ==
  Eval(isValid_(code), LAMBDA match :
    IF match = NoneValue THEN Error("buildingid.code.decode - Invalid code")
    ELSE Eval(decodeCell(match), LAMBDA c :
           IF c.kind = "error" THEN c ELSE decodeBox(match, c.cell)))

(***************************************************************************)
(* buildingid/code.py: encode                                              *)
(***************************************************************************)
\* str(n) for n >= 0
RECURSIVE IntToStr(_)
IntToStr(n) ==
  LET d == <<"0","1","2","3","4","5","6","7","8","9">>[(n % 10) + 1]
  IN IF n < 10 THEN <<d>> ELSE IntToStr(n \div 10) \o <<d>>

\* '%.1f' for '%.0f': one decimal is printed
FormatF1(num, den) ==
  LET mag == IF num < 0 THEN -num ELSE num
  IN (IF num < 0 THEN <<"-">> ELSE <<>>)
       \o IntToStr(mag \div den) \o <<".">> \o IntToStr((10 * (mag % den)) \div den)

\* '%.0f' % (num / den), den > 0: the nearest integer, ties to even, with
\* the sign kept (a negative value that rounds to zero prints as -0).
FormatF0(num, den) ==
  LET mag == IF num < 0 THEN -num ELSE num
      q == mag \div den
      r == mag % den
      rounded == IF 2 * r > den \/ (2 * r = den /\ q % 2 = 1) THEN q + 1 ELSE q
  IN (IF num < 0 THEN <<"-">> ELSE <<>>) \o IntToStr(rounded)

\* FORMAT_STRING_ % (olc, north, east, south, west); each count is <<num, den>>
FORMAT_STRING_(olc, n, e, s, w) ==
  olc \o <<SEPARATOR_>> \o FormatF0(n[1], n[2])
      \o <<SEPARATOR_>> \o FormatF0(e[1], e[2])
      \o <<SEPARATOR_>> \o FormatF0(s[1], s[2])
      \o <<SEPARATOR_>> \o FormatF0(w[1], w[2])

\* encode, lines 321-323: the first failing precondition, or "ok"
encodePreconditions(a) ==
  IF ~isValidCodeLength(a.codeLength)
    THEN Error("buildingid.code.encode - Invalid code length")
  ELSE IF ~isValidLatitudeCenter(a.latitudeLo, a.latitudeHi, a.latitudeCenter)
    THEN Error("buildingid.code.encode - Invalid latitude coordinates")
  ELSE IF ~isValidLongitudeCenter(a.longitudeLo, a.longitudeHi, a.longitudeCenter)
    THEN Error("buildingid.code.encode - Invalid longitude coordinates")
  ELSE [kind |-> "ok"]

\* encode, lines 325-335: the three cells
encodeCells(a) ==
  Eval(<<OlcDecode(OlcEncode(a.latitudeHi, a.longitudeHi, a.codeLength)),
         OlcDecode(OlcEncode(a.latitudeLo, a.longitudeLo, a.codeLength)),
         OlcEncode(a.latitudeCenter, a.longitudeCenter, a.codeLength)>>, LAMBDA t :
    LET codeAreaNortheast == t[1]
        codeAreaSouthwest == t[2]
        olcCenter == t[3]
    IN IF ~isValidCodeArea(codeAreaNortheast)
         THEN Error("buildingid.code.encode - Invalid code area (northeast)")
       ELSE IF ~isValidCodeArea(codeAreaSouthwest)
         THEN Error("buildingid.code.encode - Invalid code area (southwest)")
       ELSE Eval(OlcDecode(olcCenter), LAMBDA codeAreaCenter :
         IF ~isValidCodeArea(codeAreaCenter)
           THEN Error("buildingid.code.encode - Invalid code area (center)")
         ELSE [ kind |-> "cells", olcCenter |-> olcCenter,
                northeast |-> codeAreaNortheast, southwest |-> codeAreaSouthwest,
                center |-> codeAreaCenter ]))

\* encode, lines 337-353: the four counts
encodeExtents(c) ==
  LET codeAreaCenterHeight == c.center.latitudeHi - c.center.latitudeLo
      codeAreaCenterWidth == c.center.longitudeHi - c.center.longitudeLo
      north == c.northeast.latitudeHi - c.center.latitudeHi
      south == c.center.latitudeLo - c.southwest.latitudeLo
      east == c.northeast.longitudeHi - c.center.longitudeHi
      west == c.center.longitudeLo - c.southwest.longitudeLo
  IN IF ~(codeAreaCenterHeight >= 0)
       THEN Error("buildingid.code.encode - Invalid code - Negative height")
     ELSE IF ~(codeAreaCenterWidth >= 0)
       THEN Error("buildingid.code.encode - Invalid code - Negative width")
     ELSE IF codeAreaCenterHeight = 0 THEN Error("ZeroDivisionError")
     ELSE IF ~(north >= 0) THEN Error("buildingid.code.encode - Negative extent (north)")
     ELSE IF ~(south >= 0) THEN Error("buildingid.code.encode - Negative extent (south)")
     ELSE IF codeAreaCenterWidth = 0 THEN Error("ZeroDivisionError")
     ELSE IF ~(east >= 0) THEN Error("buildingid.code.encode - Negative extent (east)")
     ELSE IF ~(west >= 0) THEN Error("buildingid.code.encode - Negative extent (west)")
     ELSE [ kind |-> "counts",
            olcCountNorth |-> <<north, codeAreaCenterHeight>>,
            olcCountSouth |-> <<south, codeAreaCenterHeight>>,
            olcCountEast |-> <<east, codeAreaCenterWidth>>,
            olcCountWest |-> <<west, codeAreaCenterWidth>> ]

\* encode, line 355
encodeReturn(c, x) ==
  [ kind |-> "str",
    v |-> FORMAT_STRING_(c.olcCenter, x.olcCountNorth, x.olcCountEast,
                         x.olcCountSouth, x.olcCountWest) ]

EncodeArgs(latLo, lonLo, latHi, lonHi, latCenter, lonCenter, codeLength) ==
  [ latitudeLo |-> latLo, longitudeLo |-> lonLo,
    latitudeHi |-> latHi, longitudeHi |-> lonHi,
    latitudeCenter |-> latCenter, longitudeCenter |-> lonCenter,
    codeLength |-> codeLength ]

\* encode(...), whole
encode(a) ==
  Eval(encodePreconditions(a), LAMBDA pre :
    IF pre.kind = "error" THEN pre
    ELSE Eval(encodeCells(a), LAMBDA c :
           IF c.kind = "error" THEN c
           ELSE Eval(encodeExtents(c), LAMBDA x :
                  IF x.kind = "error" THEN x ELSE encodeReturn(c, x))))

\* CodeArea.encode(self)
CodeAreaEncodeArgs(self) ==
  EncodeArgs(self.latitudeLo, self.longitudeLo, self.latitudeHi, self.longitudeHi,
             self.centroid.latitudeCenter, self.centroid.longitudeCenter,
             self.codeLength)

(***************************************************************************)
(* Inputs                                                                  *)
(***************************************************************************)
\* Extents of the identifiers handed to isValid and decode: 0..MaxExtent.
MaxExtent == 1
\* Number of resize calls applied in a row to one decoded area.
MaxResize == 2
\* jaccard is called on boxes at most this many units high and wide, so
\* that the products of the model stay within its integers.
MaxSpan == 30000

Str(v) == [kind |-> "str", v |-> v]

G10 == <<"8", "4", "9", "V", "Q", "J", "H", "6", "+", "9", "5">>

\* Grid-code parts of the identifiers.
GridCodeInputs ==
  { G10,                                                         \* 10 digits
    <<"8", "4", "9", "V", "Q", "J", "H", "6", "+", "9", "5", "J">>,  \* 11 digits
    <<"8", "4", "9", "v", "q", "j", "h", "6", "+", "9", "5">>,   \* lower case
    <<"8", "4", "9", "V", "Q", "J", "H", "6", "+">>,             \* 8 digits
    <<"8", "4", "9", "V", "0", "0", "0", "0", "+">>,             \* padded, 4 digits
    <<"C", "2", "0", "0", "0", "0", "0", "0", "+">>,             \* padded, 2 digits, at the north-west corner
    <<"8", "4", "0", "0", "0", "0", "0", "0", "+", "0", "0">>,   \* padding after the separator
    <<"8", "4", "9", "V", "Q", "J", "H", "6", "+", "9", "5", "0", "0">>,  \* digits, then padding
    <<"X", "4", "9", "V", "Q", "J", "H", "6", "+", "9", "5">>,   \* first character out of range
    <<"8", "W", "9", "V", "Q", "J", "H", "6", "+", "9", "5">>,   \* second character out of range
    <<"8", "4", "9", "V", "Q", "J", "H", "6", "+", "9">>,         \* one digit after the separator
    <<"8", "4", "9", "V", "Q", "J", "H", "6">>,                   \* no separator
    <<"8", "4", "9", "A", "Q", "J", "H", "6", "+", "9", "5">> }  \* a letter outside the alphabet

\* Well-formed extent parts: -n-e-s-w
ExtentTail(n, e, s, w) ==
  <<SEPARATOR_>> \o IntToStr(n) \o <<SEPARATOR_>> \o IntToStr(e)
    \o <<SEPARATOR_>> \o IntToStr(s) \o <<SEPARATOR_>> \o IntToStr(w)

\* Malformed, or unusual, extent parts.
OddTails ==
  { <<"-", "5", "a", "-", "5", "8", "-", "4", "2", "-", "5", "0">>,   \* non-numeric
    <<"-", "0", "5", "-", "5", "8", "-", "4", "2", "-", "5", "0">>,   \* leading zero
    <<"-", "5", "1", "-", "5", "8", "-", "4", "2">>,                  \* a group missing
    <<"-", "5", "1", "-", "5", "8", "-", "4", "2", "-", "5", "0", "-", "7">>,  \* a group too many
    <<"-", "5", "1", "-", "-", "4", "2", "-", "5", "0">>,             \* an empty group
    <<"-", "5", "1", "-", "5", "8", "-", "4", "2", "-", "5", "0", " ">>,   \* trailing blank
    <<"-", "5", "1", "-", "5", "8", "-", "4", "2", "-", "5", "0", NEWLINE_>>,  \* trailing newline
    <<"-", "5", "1", "-", "5", "8", "-", "4", "2", "-", "5", "0", NEWLINE_, NEWLINE_>>,
    <<"-", "5", "1", "-", "5", "8", "-", "4", "2", "-", "5", "0">>,   \* the documented example's extents
    <<>> }

Tails ==
  { ExtentTail(n, e, s, w) : n \in 0..MaxExtent, e \in 0..MaxExtent,
                             s \in 0..MaxExtent, w \in 0..MaxExtent }
    \cup OddTails

CodeInputs == { Str(g \o t) : g \in GridCodeInputs, t \in Tails } \cup {NoneValue}

\* encode: (latitudeLo, latitudeCenter, latitudeHi) and the same for the
\* longitude, around the cell of G10, whose south-west corner is
\* (BaseLat, BaseLon).
BaseLat == OlcDecode(G10).latitudeLo
BaseLon == OlcDecode(G10).longitudeLo
LatTriples ==
  { <<BaseLat - 35, BaseLat + 7, BaseLat + 33>>,      \* off the grid
    <<BaseLat, BaseLat + 10, BaseLat + 20>>,          \* on cell edges
    <<BaseLat + 5, BaseLat + 5, BaseLat + 5>>,        \* a point
    <<LATITUDE_MAX_ * LatScale - 5, LATITUDE_MAX_ * LatScale, LATITUDE_MAX_ * LatScale>>,
    <<BaseLat + 33, BaseLat + 7, BaseLat - 35>> }     \* low above high
LonTriples ==
  { <<BaseLon - 30, BaseLon + 3, BaseLon + 50>>,
    <<BaseLon, BaseLon + 8, BaseLon + 16>>,
    <<LONGITUDE_MAX_ * LonScale, LONGITUDE_MAX_ * LonScale, LONGITUDE_MAX_ * LonScale>>,
    <<LONGITUDE_MAX_ * LonScale - 40, LONGITUDE_MAX_ * LonScale - 20, LONGITUDE_MAX_ * LonScale>>,
    <<BaseLon + 50, BaseLon, BaseLon - 30>> }
CodeLengthInputs == {1, 4, 7, PAIR_CODE_LENGTH_, MaxDigits}

EncodeInputs ==
  { EncodeArgs(la[1], lo[1], la[3], lo[3], la[2], lo[2], n) :
      la \in LatTriples, lo \in LonTriples, n \in CodeLengthInputs }

\* The second operand of intersection and jaccard: areas decoded from the
\* cell of G10 and from cells east and north of it, resized or not.
OtherCodes ==
  { Str(g \o ExtentTail(x, x, x, x)) :
      g \in { G10,
              <<"8", "4", "9", "V", "Q", "J", "H", "6", "+", "9", "6">>,
              <<"8", "4", "9", "V", "Q", "J", "H", "6", "+", "C", "5">>,
              <<"8", "4", "9", "V", "Q", "J", "H", "6", "+", "9", "8">> },
      x \in 0..MaxExtent }
DecodedOthers == { decode(c).area : c \in OtherCodes }
OtherAreas == DecodedOthers \cup { resize(a) : a \in DecodedOthers }

(***************************************************************************)
(* The client: one call at a time, holding at most one CodeArea            *)
(***************************************************************************)
VARIABLES
  pc,     \* where the current call stands
  frame,  \* the current call: its name, its arguments, its local values
  log,    \* what the current call has evaluated so far, in order
  ret,    \* what the call returned or raised, once it is done
  held    \* the CodeArea the client holds, with the identifier it was
          \* decoded from and the number of resize calls since

vars == <<pc, frame, log, ret, held>>

NoFrame == [op |-> "none"]

Init ==
  /\ pc = "idle"
  /\ frame = NoFrame
  /\ log = <<>>
  /\ ret = NoneValue
  /\ held = NoneValue

Done(r) ==
  /\ pc' = "done"
  /\ ret' = r

\* isValid(code)
IsValid ==
  /\ pc = "idle" /\ held = NoneValue
  /\ \E code \in CodeInputs :
       /\ frame' = [op |-> "isValid", arg |-> code]
       /\ Done([kind |-> "bool", v |-> isValid(code)])
  /\ log' = <<>>
  /\ UNCHANGED held

(***************************************************************************)
(* decode, statement by statement                                          *)
(***************************************************************************)
DecodeFrame(code, origin) ==
  [op |-> "decode", arg |-> code, origin |-> origin, match |-> NoneValue, cell |-> NoneValue]

\* decode(code) is called on an identifier of the inputs
DecodeCall ==
  /\ pc = "idle" /\ held = NoneValue
  /\ \E code \in CodeInputs : frame' = DecodeFrame(code, NoneValue)
  /\ pc' = "dec_parse"
  /\ log' = <<>>
  /\ UNCHANGED <<ret, held>>

\* decode(encode(...)): decode is called on the string encode just returned
DecodeEncoded ==
  /\ pc = "done" /\ frame.op = "encode" /\ frame.origin = NoneValue
  /\ ret.kind = "str"
  /\ frame' = DecodeFrame(ret, frame.arg)
  /\ pc' = "dec_parse"
  /\ log' = <<>>
  /\ ret' = NoneValue
  /\ UNCHANGED held

\* lines 269-272
DecodeParse ==
  /\ pc = "dec_parse"
  /\ \E match \in {isValid_(frame.arg)} :
        IF match = NoneValue
          THEN /\ log' = log \o <<"parse:failed">>
               /\ Done(Error("buildingid.code.decode - Invalid code"))
               /\ UNCHANGED frame
          ELSE /\ log' = log \o <<"parse:ok">>
               /\ frame' = [frame EXCEPT !.match = match]
               /\ pc' = "dec_cell"
               /\ UNCHANGED ret
  /\ UNCHANGED held

\* lines 274-281
DecodeCell ==
  /\ pc = "dec_cell"
  /\ log' = log \o <<"olc.decode">>
  /\ \E c \in {decodeCell(frame.match)} :
        IF c.kind = "error"
          THEN Done(c) /\ UNCHANGED frame
          ELSE /\ frame' = [frame EXCEPT !.cell = c.cell]
               /\ pc' = "dec_box"
               /\ UNCHANGED ret
  /\ UNCHANGED held

\* lines 283-291
DecodeBox ==
  /\ pc = "dec_box"
  /\ Done(decodeBox(frame.match, frame.cell))
  /\ UNCHANGED <<frame, log, held>>

(***************************************************************************)
(* encode, statement by statement                                          *)
(***************************************************************************)
EncodeFrame(args, origin) ==
  [op |-> "encode", arg |-> args, origin |-> origin, cells |-> NoneValue, counts |-> NoneValue]

\* encode(...) is called on a bounding box, a centre and a code length
EncodeCall ==
  /\ pc = "idle" /\ held = NoneValue
  /\ \E a \in EncodeInputs : frame' = EncodeFrame(a, NoneValue)
  /\ pc' = "enc_pre"
  /\ log' = <<>>
  /\ UNCHANGED <<ret, held>>

\* CodeArea.encode() is called on the area the client holds
AreaEncode ==
  /\ pc = "idle" /\ held # NoneValue
  /\ frame' = EncodeFrame(CodeAreaEncodeArgs(held.area), held)
  /\ pc' = "enc_pre"
  /\ log' = <<>>
  /\ UNCHANGED <<ret, held>>

\* The checks of lines 321-323 in the order they are evaluated: each assert
\* is reached only when the ones before it passed.
PreconditionLog(a) ==
  <<"check:codeLength">>
    \o (IF isValidCodeLength(a.codeLength)
          THEN <<"check:latitudeCenter">>
                 \o (IF isValidLatitudeCenter(a.latitudeLo, a.latitudeHi, a.latitudeCenter)
                       THEN <<"check:longitudeCenter">> ELSE <<>>)
          ELSE <<>>)

\* lines 321-323 without the third assert: the longitude is not checked
EncodePreconditionsNoLongitudeCheck ==
  /\ pc = "enc_pre"
  /\ \E l \in {PreconditionLog(frame.arg)} : log' = log \o SubSeq(l, 1, Min(2, Len(l)))
  /\ \E pre \in {encodePreconditions(frame.arg)} :
        IF pre.kind = "error"
             /\ pre.error # "buildingid.code.encode - Invalid longitude coordinates"
          THEN Done(pre)
          ELSE pc' = "enc_cells" /\ UNCHANGED ret
  /\ UNCHANGED <<frame, held>>

\* lines 321-323
EncodePreconditions ==
  /\ pc = "enc_pre"
  /\ log' = log \o PreconditionLog(frame.arg)
  /\ \E pre \in {encodePreconditions(frame.arg)} :
        IF pre.kind = "error"
          THEN Done(pre)
          ELSE pc' = "enc_cells" /\ UNCHANGED ret
  /\ UNCHANGED <<frame, held>>

\* The Grid Engine calls of lines 325-335 in the order they are made.
CellsLog(a) ==
  LET one == <<"olc.encode", "olc.decode", "check:codeArea">>
      ne == OlcDecode(OlcEncode(a.latitudeHi, a.longitudeHi, a.codeLength))
      sw == OlcDecode(OlcEncode(a.latitudeLo, a.longitudeLo, a.codeLength))
  IN one \o (IF isValidCodeArea(ne)
               THEN one \o (IF isValidCodeArea(sw) THEN one ELSE <<>>)
               ELSE <<>>)

\* lines 325-335
EncodeCells ==
  /\ pc = "enc_cells"
  /\ log' = log \o CellsLog(frame.arg)
  /\ \E c \in {encodeCells(frame.arg)} :
        IF c.kind = "error"
          THEN Done(c) /\ UNCHANGED frame
          ELSE /\ frame' = [frame EXCEPT !.cells = c]
               /\ pc' = "enc_extents"
               /\ UNCHANGED ret
  /\ UNCHANGED held

\* lines 337-353
EncodeExtents ==
  /\ pc = "enc_extents"
  /\ \E x \in {encodeExtents(frame.cells)} :
        IF x.kind = "error"
          THEN Done(x) /\ UNCHANGED frame
          ELSE /\ frame' = [frame EXCEPT !.counts = x]
               /\ pc' = "enc_return"
               /\ UNCHANGED ret
  /\ UNCHANGED <<log, held>>

\* line 355
EncodeReturn ==
  /\ pc = "enc_return"
  /\ Done(encodeReturn(frame.cells, frame.counts))
  /\ UNCHANGED <<frame, log, held>>

(***************************************************************************)
(* CodeArea geometry, on the area the client holds                         *)
(***************************************************************************)
Span(a) ==
  LET h == a.latitudeHi - a.latitudeLo
      w == a.longitudeHi - a.longitudeLo
  IN Max(Max(h, -h), Max(w, -w))

\* a.resize(); the client still holds a until it takes the result
Resize ==
  /\ pc = "idle" /\ held # NoneValue
  /\ held.resizes < MaxResize
  /\ frame' = [op |-> "resize", self |-> held.area]
  /\ Done([kind |-> "area", area |-> resize(held.area)])
  /\ log' = <<>>
  /\ UNCHANGED held

\* a.intersection(other)
Intersection ==
  /\ pc = "idle" /\ held # NoneValue
  /\ \E other \in OtherAreas \cup {held.area, NoneValue} :
       /\ frame' = [op |-> "intersection", self |-> held.area, other |-> other]
       /\ Done(intersection(held.area, other))
  /\ log' = <<>>
  /\ UNCHANGED held

\* a.jaccard(other)
Jaccard ==
  /\ pc = "idle" /\ held # NoneValue
  /\ Span(held.area) <= MaxSpan
  /\ \E other \in OtherAreas \cup {held.area, NoneValue} :
       /\ frame' = [op |-> "jaccard", self |-> held.area, other |-> other]
       /\ Done(jaccard(held.area, other))
  /\ log' = <<>>
  /\ UNCHANGED held

\* The call is over.  The client keeps a decoded or resized area.
Return ==
  /\ pc = "done"
  /\ pc' = "idle"
  /\ held' =
       IF frame.op = "decode" /\ ret.kind = "area"
         THEN [kind |-> "held", area |-> ret.area, src |-> frame.arg, resizes |-> 0]
       ELSE IF frame.op = "resize"
         THEN [held EXCEPT !.area = ret.area, !.resizes = @ + 1]
       ELSE held
  /\ frame' = NoFrame
  /\ log' = <<>>
  /\ ret' = NoneValue

\* The client drops the area it holds.
Release ==
  /\ pc = "idle" /\ held # NoneValue
  /\ held' = NoneValue
  /\ UNCHANGED <<pc, frame, log, ret>>

Next ==
  \/ IsValid
  \/ DecodeCall \/ DecodeEncoded \/ DecodeParse \/ DecodeCell \/ DecodeBox
  \/ EncodeCall \/ AreaEncode
  \/ EncodePreconditions \/ EncodeCells \/ EncodeExtents \/ EncodeReturn
  \/ Resize \/ Intersection \/ Jaccard
  \/ Return \/ Release

Spec == Init /\ [][Next]_vars

(***************************************************************************)
(* Properties                                                              *)
(***************************************************************************)
\* s cut at every ch: the sequence of the fields between them
RECURSIVE SplitAt(_, _)
SplitAt(s, ch) ==
  IF ch \notin Range(s) THEN <<s>>
  ELSE LET i == Find(s, ch) + 1
       IN <<SubSeq(s, 1, i - 1)>> \o SplitAt(SubSeq(s, i + 1, Len(s)), ch)

\* '0', or a non-zero digit followed by digits
IsExtentGroup(f) ==
  /\ f # <<>>
  /\ \A i \in 1..Len(f) : f[i] \in DIGITS_
  /\ (f[1] = "0") => (Len(f) = 1)

\* The identifier grammar: a grid code, then four '-'-separated groups.
InGrammar(s) ==
  \E fields \in {SplitAt(s, SEPARATOR_)} :
    /\ Len(fields) = 5
    /\ Len(fields[1]) \in ReGridCode(fields[1], {0})
    /\ \A i \in 2..5 : IsExtentGroup(fields[i])

GridCodeOf(s) == SplitAt(s, SEPARATOR_)[1]

EndOf(op) == pc = "done" /\ frame.op = op

\* C1: isValid(s) is true exactly when s is in the identifier grammar and
\* its grid code passes the Grid Engine's validity predicate; None is not
\* valid.
C1_IsValidIffGrammarAndGridCode ==
  EndOf("isValid") =>
    (ret.v <=> (/\ frame.arg # NoneValue
                /\ InGrammar(frame.arg.v)
                /\ OlcIsValid(GridCodeOf(frame.arg.v))))

Abs(x) == IF x < 0 THEN -x ELSE x

\* C2: decode(encode(box, centre, precision)) succeeds, and each edge of
\* its box is within one cell (at that precision) of the edge encode was
\* given.
C2_RoundTripWithinOneCell ==
  (EndOf("decode") /\ frame.origin # NoneValue) =>
    /\ ret.kind = "area"
    /\ Abs(ret.area.latitudeLo - frame.origin.latitudeLo)
         <= LatitudePrecision(frame.origin.codeLength)
    /\ Abs(ret.area.latitudeHi - frame.origin.latitudeHi)
         <= LatitudePrecision(frame.origin.codeLength)
    /\ Abs(ret.area.longitudeLo - frame.origin.longitudeLo)
         <= LongitudePrecision(frame.origin.codeLength)
    /\ Abs(ret.area.longitudeHi - frame.origin.longitudeHi)
         <= LongitudePrecision(frame.origin.codeLength)

\* C3: a string that encode returns is a valid identifier: the centre grid
\* code, then exactly four groups, each '0' or a non-zero digit followed by
\* digits.
C3_EncodeResultIsValid ==
  (EndOf("encode") /\ ret.kind = "str") =>
    /\ isValid(ret)
    /\ \E fields \in {SplitAt(ret.v, SEPARATOR_)} :
         /\ Len(fields) = 5
         /\ fields[1] = frame.cells.olcCenter
         /\ \A i \in 2..5 : IsExtentGroup(fields[i])

C3_Witness ==
  /\ EndOf("encode") /\ ret.kind = "str"
  /\ frame.origin = NoneValue
  /\ frame.counts.olcCountNorth[1] > 0
  /\ frame.counts.olcCountWest[1] > 0

EngineCalls == {"olc.encode", "olc.decode"}
PreconditionChecks == {"check:codeLength", "check:latitudeCenter", "check:longitudeCenter"}
PreconditionErrors ==
  { "buildingid.code.encode - Invalid code length",
    "buildingid.code.encode - Invalid latitude coordinates",
    "buildingid.code.encode - Invalid longitude coordinates" }

\* C4: in encode, the three precondition checks are all evaluated before
\* the first Grid Engine encode or decode call, and a failed precondition
\* means no such call is made; in decode, the Grid Engine decode is called
\* only after the identifier has parsed, and an identifier that does not
\* parse fails with the invalid-code error without that call.
C4_ChecksAreEager ==
  /\ (frame.op = "encode") =>
       /\ \A i \in 1..Len(log) :
            (log[i] \in EngineCalls) =>
              (\A c \in PreconditionChecks : \E j \in 1..(i - 1) : log[j] = c)
       /\ (pc = "done" /\ ret.kind = "error" /\ ret.error \in PreconditionErrors) =>
            (\A i \in 1..Len(log) : log[i] \notin EngineCalls)
  /\ (frame.op = "decode") =>
       /\ \A i \in 1..Len(log) :
            (log[i] = "olc.decode") => (\E j \in 1..(i - 1) : log[j] = "parse:ok")
       /\ (pc = "done" /\ frame.match = NoneValue) =>
            /\ ret = Error("buildingid.code.decode - Invalid code")
            /\ \A i \in 1..Len(log) : log[i] # "olc.decode"

C4_Witness ==
  /\ EndOf("encode")
  /\ ret = Error("buildingid.code.encode - Invalid longitude coordinates")
  /\ Len(log) = 3

LatRangeInverted(a, b) ==
  Max(a.latitudeLo, b.latitudeLo) > Min(a.latitudeHi, b.latitudeHi)
LonRangeInverted(a, b) ==
  Max(a.longitudeLo, b.longitudeLo) > Min(a.longitudeHi, b.longitudeHi)
LatRangeTouching(a, b) ==
  Max(a.latitudeLo, b.latitudeLo) = Min(a.latitudeHi, b.latitudeHi)
LonRangeTouching(a, b) ==
  Max(a.longitudeLo, b.longitudeLo) = Min(a.longitudeHi, b.longitudeHi)

\* C6: intersection(a, b) is None exactly when the intersected latitude
\* range or the intersected longitude range is strictly inverted; boxes
\* that just touch give a rectangle, of zero area; and intersection(b, a)
\* is None exactly when intersection(a, b) is.
C6_IntersectionNoneIffInverted ==
  (EndOf("intersection") /\ frame.other # NoneValue) =>
    /\ (ret = NoneValue)
         <=> (LatRangeInverted(frame.self, frame.other)
                \/ LonRangeInverted(frame.self, frame.other))
    /\ (/\ ~LatRangeInverted(frame.self, frame.other)
        /\ ~LonRangeInverted(frame.self, frame.other)
        /\ (LatRangeTouching(frame.self, frame.other)
              \/ LonRangeTouching(frame.self, frame.other)))
         => /\ ret.kind = "tuple"
            /\ (ret.v[4] - ret.v[2]) * (ret.v[3] - ret.v[1]) = 0
    /\ (ret = NoneValue) <=> (intersection(frame.other, frame.self) = NoneValue)

C6_Witness ==
  /\ EndOf("intersection") /\ frame.other # NoneValue
  /\ frame.other # frame.self
  /\ ret.kind = "tuple"
  /\ LonRangeTouching(frame.self, frame.other)
  /\ ~LatRangeTouching(frame.self, frame.other)

\* C7, as claimed: the rectangle of a non-None intersection is
\* (max latLo, max lonLo, min latHi, min lonHi), in that order.
C7_IntersectionLatitudeFirst ==
  (EndOf("intersection") /\ ret # NoneValue) =>
    ret.v = << Max(frame.self.latitudeLo, frame.other.latitudeLo),
               Max(frame.self.longitudeLo, frame.other.longitudeLo),
               Min(frame.self.latitudeHi, frame.other.latitudeHi),
               Min(frame.self.longitudeHi, frame.other.longitudeHi) >>

\* C7, amended: the rectangle of a non-None intersection is
\* (max lonLo, max latLo, min lonHi, min latHi): longitude low, latitude
\* low, longitude high, latitude high.
C7_IntersectionLongitudeFirst ==
  (EndOf("intersection") /\ ret # NoneValue) =>
    ret.v = << Max(frame.self.longitudeLo, frame.other.longitudeLo),
               Max(frame.self.latitudeLo, frame.other.latitudeLo),
               Min(frame.self.longitudeHi, frame.other.longitudeHi),
               Min(frame.self.latitudeHi, frame.other.latitudeHi) >>

C7_Witness ==
  /\ EndOf("intersection") /\ ret # NoneValue
  /\ frame.other # frame.self
  /\ ret.v[1] < ret.v[3] /\ ret.v[2] < ret.v[4]

\* C8: jaccard(a, a) = 1 for every area got from decode and resize, also
\* when the area of a is zero.
C8_JaccardWithItselfIsOne ==
  (EndOf("jaccard") /\ frame.other = frame.self) =>
    (ret.kind = "ratio" /\ ret.num = ret.den)

\* The smallest of the four extents of an identifier that parses
MinExtentOf(code) ==
  LET g == isValid_(code).group
  IN Min(Min(ParseInt(g[2]), ParseInt(g[3])), Min(ParseInt(g[4]), ParseInt(g[5])))

BoxOrdered(a) == a.latitudeLo <= a.latitudeHi /\ a.longitudeLo <= a.longitudeHi

BoxContainsCell(a) ==
  /\ a.latitudeLo <= a.centroid.latitudeLo /\ a.centroid.latitudeHi <= a.latitudeHi
  /\ a.longitudeLo <= a.centroid.longitudeLo /\ a.centroid.longitudeHi <= a.longitudeHi

\* resize: same centre cell and precision, a box within the argument's box,
\* and the argument as it was
ResizeStep ==
  EndOf("resize") =>
    /\ ret.area.centroid = frame.self.centroid
    /\ ret.area.codeLength = frame.self.codeLength
    /\ frame.self.latitudeLo <= ret.area.latitudeLo
    /\ ret.area.latitudeHi <= frame.self.latitudeHi
    /\ frame.self.longitudeLo <= ret.area.longitudeLo
    /\ ret.area.longitudeHi <= frame.self.longitudeHi
    /\ held.area = frame.self

\* C9, as claimed: every area got by one decode and any number of resize
\* calls has latLo <= latHi and lonLo <= lonHi and a box that contains its
\* centre cell; and each resize is a ResizeStep.
C9_AreaInvariantAfterAnyResizes ==
  /\ (held # NoneValue) => (BoxOrdered(held.area) /\ BoxContainsCell(held.area))
  /\ ResizeStep

\* C9, amended: the same, for the areas got by one decode and k resize
\* calls where k is at most twice the smallest of the identifier's four
\* extents.
C9_AreaInvariantWhileExtentsLast ==
  /\ (held # NoneValue /\ held.resizes <= 2 * MinExtentOf(held.src))
       => (BoxOrdered(held.area) /\ BoxContainsCell(held.area))
  /\ ResizeStep

C9_Witness ==
  /\ pc = "idle" /\ held # NoneValue
  /\ held.resizes = 2
  /\ MinExtentOf(held.src) = 1

\* C10: for an upper-case identifier c with an unpadded grid code that
\* decode accepts, encoding the decoded area gives c back.
C10_DecodeThenEncodeIsIdentity ==
  (/\ EndOf("encode") /\ frame.origin # NoneValue
   /\ frame.origin.resizes = 0
   /\ InGrammar(frame.origin.src.v)
   /\ UpperSeq(frame.origin.src.v) = frame.origin.src.v
   /\ PADDING_CHARACTER_ \notin Range(GridCodeOf(frame.origin.src.v)))
    => ret = frame.origin.src

=============================================================================
